---- MODULE Spec2Model ----
(***************************************************************************)
(* Model of the architecture-configuration compiler of src/src/create.py:  *)
(* the entry point main (name composition, the two consistency checks,     *)
(* output directory and file) and the layer graph transformer              *)
(* process_model (attention insertion and rewriting of head references).   *)
(*                                                                         *)
(* Python str values are sequences of one-character strings, so that `in`  *)
(* (substring test), + and str.join are computed, not assumed.             *)
(***************************************************************************)
EXTENDS Integers, Sequences, FiniteSets, TLC

VARIABLES
    cfg,        \* the DictConfig handed to main / process_model
    cfg0,       \* the configuration as it was on entry (history)
    pc,         \* position of the running function
    model_name, \* local of main, line 141
    dirs,       \* directories that exist under ROOT
    files,      \* files under ROOT: path -> content
    stdout,     \* what has been printed, in order
    fsops,      \* the file system calls made so far, in order (history)
    ser,        \* the serializer's texts: formatted, loaded back, formatted again
    ren,        \* rename_py_files: the directory and the loop's position
    trn,        \* train.py main: the model name, the model, the calls made
    vld,        \* YOLOModelValidator: the model, the results, the loop's position
    err         \* the exception that left the function, or "none"

vars == <<cfg, cfg0, pc, model_name, dirs, files, stdout, fsops, ser, ren, trn, vld, err>>

----------------------------------------------------------------------------
(* Python values                                                           *)

\* A str value, None, and "the key is not in the DictConfig".
Str(s) == [k |-> "str", v |-> s]
None == [k |-> "none", v |-> <<>>]
Absent == [k |-> "absent", v |-> <<>>]

\* bool(x) for an option value: None and '' are falsy.
Truthy(x) == x.k = "str" /\ Len(x.v) > 0

\* `sub in s` for two str values.
Contains(sub, s) ==
    \E i \in 0..(Len(s) - Len(sub)) : SubSeq(s, i + 1, i + Len(sub)) = sub

\* sep.join(parts)
RECURSIVE Join(_, _)
Join(sep, parts) ==
    IF Len(parts) = 0 THEN <<>>
    ELSE IF Len(parts) = 1 THEN parts[1]
    ELSE parts[1] \o sep \o Join(sep, Tail(parts))

Xor(a, b) == a /= b

\* The serializer and rename_py_files at rest.
NoSer == [text |-> <<>>, loaded |-> [ok |-> TRUE, map |-> <<>>], again |-> <<>>]
NoRename == [exists |-> FALSE, entries |-> <<>>, entries0 |-> <<>>,
             py_files |-> {}, log |-> <<>>]

\* train.py and the validator at rest.
NoTrain == [name |-> <<>>, model |-> "unbound", calls |-> <<>>]
NoValidator == [model |-> "none", tests |-> <<>>, calls |-> <<>>]

\* The string literals of create.py.
Dash == <<"-">>
Marker4Head == <<"4", "H", "e", "a", "d">>
MarkerAttn == <<"a", "t", "t", "n">>
DefaultRunName == <<"c", "r", "e", "a", "t", "e">>
YamlExt == <<".", "y", "a", "m", "l">>
DirConfigs == <<"c", "o", "n", "f", "i", "g", "s">>
DirModel == <<"m", "o", "d", "e", "l">>
DirGenerate == <<"g", "e", "n", "e", "r", "a", "t", "e">>

\* A `from` entry of a LayerSpec: an int or a list of ints.
FromInt(n) == [k |-> "int", n |-> n, l |-> <<>>]
FromList(l) == [k |-> "list", n |-> 0, l |-> l]

\* A LayerSpec [from, repeats, module, args].
Layer(f, r, m, a) == [from |-> f, repeats |-> r, module |-> m, args |-> a]

\* Malformed head entries: a `from` that is neither an int nor a list (a
\* str), and a LayerSpec with no elements ([]), which has no layer[0].
FromOther == [k |-> "str", n |-> 0, l |-> <<>>]
FromMissing == [k |-> "missing", n |-> 0, l |-> <<>>]
EmptyLayer == [from |-> FromMissing, repeats |-> 0, module |-> <<>>, args |-> <<>>]

ModConv == <<"C", "o", "n", "v">>
ModConcat == <<"C", "o", "n", "c", "a", "t">>
ModDetect == <<"D", "e", "t", "e", "c", "t">>

----------------------------------------------------------------------------
(* The template (cfg.template)                                             *)

\* Keys main removes from the keys of the template, line 140.
ReservedKeys == {"name", "nc", "scales", "backbone", "head"}

\* The option fields of a template, in the order the template declares them
\* (the fields main reads by name, lines 144, 147, 172-175).
OptionKeys == <<"DOWNSAMPLE", "CONVOLUTION", "FUSION", "HEAD", "ATTENTION">>

\* cfg.template.keys(): the keys the template holds.
Keys(t) == ReservedKeys \cup
    {OptionKeys[i] : i \in {j \in 1..Len(OptionKeys) : t[OptionKeys[j]].k /= "absent"}}

\* cfg.template.get(key): None for a key the template does not hold.
Get(t, key) == IF t[key].k = "absent" THEN None ELSE t[key]

\* The threshold of lines 126 and 130.
HeadStart == 10

\* Bounds of the templates the model draws.
MaxBackbone == 11
MaxHead == 1
MaxFromLen == 2

\* A backbone of B layers; the args tell the layers apart.
Backbone(B) == [i \in 1..B |-> Layer(FromInt(-1), 1, ModConv, <<i - 1>>)]

\* Index values a head layer's `from` is drawn from: a relative offset,
\* absolute indices below, at and above the threshold.
IdxVals == {-1, HeadStart - 1, HeadStart, HeadStart + 2}

SeqsUpTo(S, n) == UNION {[1..m -> S] : m \in 0..n}

FromVals == {FromInt(i) : i \in IdxVals} \cup
            {FromList(l) : l \in SeqsUpTo(IdxVals, MaxFromLen)} \cup
            {FromOther, FromMissing}

\* Head layer sequences: layer i is [from, 1, Detect, [255 + i]], or [].
Heads == {[i \in 1..Len(fs) |->
              IF fs[i] = FromMissing THEN EmptyLayer
              ELSE Layer(fs[i], 1, ModDetect, <<255 + i>>)] :
             fs \in SeqsUpTo(FromVals, MaxHead)}

Template(nm, B, hd, ds, cv, fu, he, at) ==
    [name |-> nm, nc |-> 80, scales |-> <<1, 1, 1024>>,
     backbone |-> Backbone(B), head |-> hd,
     DOWNSAMPLE |-> ds, CONVOLUTION |-> cv, FUSION |-> fu,
     HEAD |-> he, ATTENTION |-> at]

Config(t, rn) == [template |-> t, user |-> <<"u">>, time |-> <<"t", "1">>,
                  run_name |-> rn]

----------------------------------------------------------------------------
(* process_model, lines 120-135                                            *)

\* Faulty variants of the index rewrite: a strict comparison, a shift by two.
ShiftIndexStrict(v) == IF v > HeadStart THEN v + 1 ELSE v
ShiftIndexByTwo(v) == IF v >= HeadStart THEN v + 2 ELSE v

\* Lines 126-127 and 130-131: the rewrite of one integer index.
ShiftIndex(v) == IF v >= HeadStart THEN v + 1 ELSE v

\* Faulty variant: only the first element of a list is rewritten.
RewriteFromFirstOnly(f) ==
    IF f.k = "int" THEN FromInt(ShiftIndex(f.n))
    ELSE IF f.k = "list" /\ Len(f.l) > 0
         THEN FromList([f.l EXCEPT ![1] = ShiftIndex(@)])
         ELSE f

\* Lines 125-131: the rewrite of a layer's `from` (layer[0]).
RewriteFrom(f) ==
    IF f.k = "int" THEN FromInt(ShiftIndex(f.n))
    ELSE IF f.k = "list" /\ Len(f.l) > 0
         THEN FromList([i \in 1..Len(f.l) |-> ShiftIndex(f.l[i])])
         ELSE f

\* Line 124: the loop over the head layers.
RewriteHead(head) ==
    [i \in 1..Len(head) |-> [head[i] EXCEPT !.from = RewriteFrom(@)]]

\* Line 123: the LayerSpec appended to the backbone.
AttentionLayer(a) == Layer(FromInt(-1), 1, a, <<>>)

\* Faulty variant: the new layer is put in front (insert(0, ...)).
AppendAttentionFront(backbone, a) == <<AttentionLayer(a)>> \o backbone

\* Line 123: backbone.append(...)
AppendAttention(backbone, a) == Append(backbone, AttentionLayer(a))

\* Line 122: `if cfg.template.ATTENTION:`
AttentionSelected(t) == Truthy(t.ATTENTION)

\* process_model(cfg) for a template that holds the key ATTENTION.
process_model(c) ==
    IF AttentionSelected(c.template)
    THEN [c EXCEPT !.template.backbone = AppendAttention(@, c.template.ATTENTION.v),
                   !.template.head = RewriteHead(@)]
    ELSE c

\* Faulty variant: an empty LayerSpec is skipped instead of raising.
FirstEmptyNever(head) == 0

\* Line 125: the first head layer without a layer[0], or 0.
FirstEmpty(head) ==
    IF \E i \in 1..Len(head) : head[i] = EmptyLayer
    THEN CHOOSE i \in 1..Len(head) :
            head[i] = EmptyLayer /\ \A j \in 1..(i - 1) : head[j] /= EmptyLayer
    ELSE 0

\* The template as line 125 leaves it when layer[0] raises at head layer i:
\* the backbone is extended and the layers before i are rewritten.
process_model_interrupted(c, i) ==
    [c EXCEPT !.template.backbone = AppendAttention(@, c.template.ATTENTION.v),
              !.template.head = RewriteHead(SubSeq(@, 1, i - 1)) \o SubSeq(@, i, Len(@))]

\* A call of process_model: reading a key the template does not hold raises
\* (line 122), and so does layer[0] on a LayerSpec with no elements (line 125).
CallProcessModel ==
    /\ pc = "pm_call"
    /\ IF cfg.template.ATTENTION.k = "absent"
       THEN /\ pc' = "pm_raised"
            /\ err' = "ConfigAttributeError"
            /\ cfg' = cfg
       ELSE IF AttentionSelected(cfg.template) /\ FirstEmpty(cfg.template.head) > 0
       THEN /\ pc' = "pm_raised"
            /\ err' = "IndexError"
            /\ cfg' = process_model_interrupted(cfg, FirstEmpty(cfg.template.head))
       ELSE /\ pc' = "pm_returned"
            /\ err' = err
            /\ cfg' = process_model(cfg)
    /\ UNCHANGED <<cfg0, model_name, dirs, files, stdout, fsops, ser, ren, trn, vld>>

PMAttention == {Str(<<"E", "I", "E">>), Str(<<>>), None, Absent}

InitPM ==
    /\ \E B \in (HeadStart - 1)..MaxBackbone, hd \in Heads, at \in PMAttention :
          cfg = Config(Template(Str(<<"y">>), B, hd, None, None, None,
                                Str(<<"D">>), at), DefaultRunName)
    /\ cfg0 = cfg
    /\ pc = "pm_call"
    /\ model_name = <<>>
    /\ dirs = {}
    /\ files = <<>>
    /\ stdout = <<>>
    /\ fsops = <<>>
    /\ ser = NoSer
    /\ trn = NoTrain
    /\ vld = NoValidator
    /\ ren = NoRename
    /\ err = "none"

NextPM == CallProcessModel

SpecPM == InitPM /\ [][NextPM]_vars

----------------------------------------------------------------------------
(* main, lines 138-186                                                     *)

\* The orders in which a Python set of str keys can be iterated: the order
\* follows the keys' hashes, which differ from process to process, so every
\* order is an outcome.
IterationOrders(S) ==
    {o \in [1..Cardinality(S) -> S] :
        \A i, j \in 1..Cardinality(S) : i /= j => o[i] /= o[j]}

\* Line 140.
used_keys(t) == Keys(t) \ ReservedKeys

\* Line 141, the list comprehension: the truthy values, in iteration order.
NameParts(t, order) ==
    LET vals == [i \in 1..Len(order) |-> Get(t, order[i])]
        kept == SelectSeq(vals, Truthy)
    IN  [i \in 1..Len(kept) |-> kept[i].v]

\* Line 141.
ComposeName(t, order) == t.name.v \o Dash \o Join(Dash, NameParts(t, order))

\* The option keys a template holds, in declared order.
DeclaredOrder(t) == SelectSeq(OptionKeys, LAMBDA key : key \in used_keys(t))

\* Faulty variants of the first rule's test: the test is dropped; the test
\* reads the composed name instead of template.name.
HeadMismatchNever(t) == FALSE
HeadMismatchOnComposed(t) ==
    Xor(Contains(Marker4Head, ComposeName(t, DeclaredOrder(t))),
        Contains(Marker4Head, t.HEAD.v))

\* Line 144: the test of the first consistency rule (HEAD is a str).
HeadMismatch(t) ==
    Xor(Contains(Marker4Head, t.name.v), Contains(Marker4Head, t.HEAD.v))

\* Line 147: the test of the second consistency rule.
AttentionMismatch(t) ==
    Xor(Contains(MarkerAttn, t.name.v), t.ATTENTION.k /= "none")

\* Faulty variant: the run name is appended whatever it is.
USER_GENERATE_DIR_AlwaysSuffix(c) ==
    <<DirConfigs, DirModel, c.user, DirGenerate, c.time \o Dash \o c.run_name>>

\* Lines 155-156.
USER_GENERATE_DIR(c) ==
    <<DirConfigs, DirModel, c.user, DirGenerate,
      c.time \o (IF c.run_name /= DefaultRunName THEN Dash \o c.run_name ELSE <<>>)>>

\* Line 160.
yaml_path(c, name) == Append(USER_GENERATE_DIR(c), name \o YamlExt)

\* The keys of a template in declared order.
TemplateKeys == <<"name", "nc", "scales", "backbone", "head">> \o OptionKeys

\* Lines 117-118, 162: the plain dict of the keys the template holds.
oc_to_dict(t) ==
    LET held == SelectSeq(TemplateKeys, LAMBDA key : key \in Keys(t))
    IN  [i \in 1..Len(held) |-> [key |-> held[i], value |-> t[held[i]]]]

\* d[key] for a dict built by oc_to_dict.
DictGet(d, key) == d[CHOOSE i \in 1..Len(d) : d[i].key = key].value

\* Lines 165-176: the fields the header comment shows.
header_comment(c, name) ==
    [user |-> c.user, template |-> c.template.name.v, model_name |-> name,
     DOWNSAMPLE |-> c.template.DOWNSAMPLE, CONVOLUTION |-> c.template.CONVOLUTION,
     FUSION |-> c.template.FUSION, HEAD |-> c.template.HEAD]

\* The attributes the header reads, lines 172-175.
HeaderKeys == {"DOWNSAMPLE", "CONVOLUTION", "FUSION", "HEAD"}

----------------------------------------------------------------------------
(* The serializer: yaml.dump with CustomYAMLDumper and                     *)
(* format_yaml_content, lines 8-115                                        *)

\* The Python objects a plain model dict holds.
PyNone == [t |-> "none"]
PyInt(n) == [t |-> "int", n |-> n]
PyStr(s) == [t |-> "str", s |-> s]
PyList(xs) == [t |-> "list", items |-> xs]

PyInts(ns) == PyList([i \in 1..Len(ns) |-> PyInt(ns[i])])
PyOption(v) == IF v.k = "str" THEN PyStr(v.v) ELSE PyNone
PyFrom(f) == IF f.k = "int" THEN PyInt(f.n) ELSE PyInts(f.l)
PyLayer(l) == PyList(<<PyFrom(l.from), PyInt(l.repeats), PyStr(l.module), PyInts(l.args)>>)
PyLayers(ls) == PyList([i \in 1..Len(ls) |-> PyLayer(ls[i])])

\* Line 162: the value of one key of the dict as a Python object.
PyValue(key, v) ==
    CASE key = "name" -> PyStr(v.v)
      [] key = "nc" -> PyInt(v)
      [] key = "scales" -> PyInts(v)
      [] key \in {"backbone", "head"} -> PyLayers(v)
      [] OTHER -> PyOption(v)

\* Line 162: model = oc_to_dict(cfg.template), in insertion order.
model_dict(t) ==
    LET d == oc_to_dict(t)
    IN  [i \in 1..Len(d) |-> [key |-> d[i].key, value |-> PyValue(d[i].key, d[i].value)]]

\* One line of YAML text (scalars are written so that they read back with
\* their type, a str that looks like a number or null in quotes): its indentation, what it is, and for a key or an
\* item the value written on the same line (<<>> when there is none).
KeyLine(ind, key, val) == [ind |-> ind, kind |-> "key", key |-> key, val |-> val]
ItemLine(ind, v) == [ind |-> ind, kind |-> "item", key |-> "", val |-> <<v>>]
CommentLine(ind, text) == [ind |-> ind, kind |-> "comment", key |-> text, val |-> <<>>]
BlankLine == [ind |-> 0, kind |-> "blank", key |-> "", val |-> <<>>]

\* Lines 27-34: a list of four whose first is an int or a list, second an
\* int, third a str and fourth a list.
IsLayerSpec(v) ==
    /\ v.t = "list" /\ Len(v.items) = 4
    /\ v.items[1].t \in {"int", "list"}
    /\ v.items[2].t = "int"
    /\ v.items[3].t = "str"
    /\ v.items[4].t = "list"

\* Lines 36-38: a list of three numbers.
IsThreeNumbers(v) ==
    /\ v.t = "list" /\ Len(v.items) = 3
    /\ \A i \in 1..3 : v.items[i].t = "int"

\* Lines 21-41: represent_list chooses the flow style.
represent_list_flow(v) == IsLayerSpec(v) \/ IsThreeNumbers(v)

\* A value the dumper writes on the line of its key or dash: a scalar, a
\* flow-style list, or an empty list ("[]").
Inline(v) == v.t /= "list" \/ v.items = <<>> \/ represent_list_flow(v)

\* Lines 57-65: the lines yaml.dump writes for one key. A block sequence
\* under a key is written without indentation; its items are LayerSpecs
\* and scalars, each on a line of its own.
dump_entry(e) ==
    IF Inline(e.value)
    THEN <<KeyLine(0, e.key, <<e.value>>)>>
    ELSE <<KeyLine(0, e.key, <<>>)>> \o
         [i \in 1..Len(e.value.items) |-> ItemLine(0, e.value.items[i])]

RECURSIVE dump_entries(_)
dump_entries(d) ==
    IF d = <<>> THEN <<>> ELSE dump_entry(Head(d)) \o dump_entries(Tail(d))

\* Lines 57-65 and 69: yaml_str.split('\n'); the dump ends with a newline,
\* so the last element is the empty string.
yaml_dump_lines(d) == Append(dump_entries(d), BlankLine)

\* The tests format_yaml_content makes on a line.
IsScalesKey(line) == line.kind = "key" /\ line.key = "scales"
IsBackboneKey(line) == line.kind = "key" /\ line.key = "backbone"
IsHeadKey(line) == line.kind = "key" /\ line.key = "head"
IsFlowItem(line) ==
    /\ line.kind = "item"
    /\ line.val[1].t = "list"
NonBlank(line) == line.kind /= "blank"
HasColon(line) == line.kind = "key"

ScalesComment == "# [depth, width, max_channels]"
LayerComment == "# [from, repeats, module, args]"

\* Faulty variants: the blank line put after the key, the key left out.
BackboneBannerKeyFirst ==
    <<KeyLine(0, "backbone", <<>>), BlankLine, CommentLine(2, LayerComment)>>
BackboneBannerNoKey == <<BlankLine, CommentLine(2, LayerComment)>>

\* Lines 77-78: what replaces the scales line.
ScalesBanner == <<KeyLine(0, "scales", <<>>), CommentLine(2, ScalesComment)>>

\* Lines 84-86: what replaces the backbone line.
BackboneBanner ==
    <<BlankLine, KeyLine(0, "backbone", <<>>), CommentLine(2, LayerComment)>>

\* Lines 92-93: what replaces the head line.
HeadBanner == <<BlankLine, KeyLine(0, "head", <<>>)>>

\* Lines 75-113: the loop over the lines, with its three flags.
RECURSIVE format_lines(_, _, _, _)
format_lines(lines, in_backbone, in_head, in_scales) ==
    IF lines = <<>> THEN <<>>
    ELSE LET line == Head(lines)
             rest == Tail(lines)
         IN  IF IsScalesKey(line)
             THEN ScalesBanner \o format_lines(rest, FALSE, FALSE, TRUE)
             ELSE IF IsBackboneKey(line)
             THEN BackboneBanner \o format_lines(rest, TRUE, FALSE, FALSE)
             ELSE IF IsHeadKey(line)
             THEN HeadBanner \o format_lines(rest, FALSE, TRUE, FALSE)
             ELSE LET reset == NonBlank(line) /\ line.ind = 0 /\ ~ IsFlowItem(line)
                      b == in_backbone /\ ~ reset
                      h == in_head /\ ~ reset
                      s == in_scales /\ ~ reset
                      l1 == IF s /\ NonBlank(line) /\ HasColon(line) /\ line.ind < 2
                            THEN [line EXCEPT !.ind = 2]
                            ELSE line
                      l2 == IF (b \/ h) /\ IsFlowItem(l1)
                            THEN [l1 EXCEPT !.ind = 2]
                            ELSE l1
                  IN  <<l2>> \o format_lines(rest, b, h, s)

\* Lines 46-115: the dump, the loop, '\n'.join.
format_yaml_content(d) == format_lines(yaml_dump_lines(d), FALSE, FALSE, FALSE)

\* yaml.safe_load on the text: the lines that carry content.
Significant(line) == line.kind \in {"key", "item"}

\* The index after the run of lines that can belong to the key at i: items,
\* blank lines and comments.
RECURSIVE RunEnd(_, _)
RunEnd(lines, j) ==
    IF j <= Len(lines) /\ lines[j].kind /= "key" THEN RunEnd(lines, j + 1) ELSE j

ParseFailed == [ok |-> FALSE, map |-> <<>>]

\* dict[key] = value: a key read twice keeps its place and takes the new
\* value.
DictSet(d, key, value) ==
    IF \E i \in 1..Len(d) : d[i].key = key
    THEN [i \in 1..Len(d) |-> IF d[i].key = key THEN [key |-> key, value |-> value] ELSE d[i]]
    ELSE Append(d, [key |-> key, value |-> value])

\* yaml.safe_load: a mapping of top-level keys; a key without a value is
\* followed by the items of its block sequence, all at one indentation, or
\* by nothing (null).
RECURSIVE safe_load_from(_, _, _)
safe_load_from(lines, i, acc) ==
    IF i > Len(lines) THEN [ok |-> TRUE, map |-> acc]
    ELSE IF ~ Significant(lines[i]) THEN safe_load_from(lines, i + 1, acc)
    ELSE IF lines[i].kind /= "key" \/ lines[i].ind /= 0 THEN ParseFailed
    ELSE IF lines[i].val /= <<>>
    THEN safe_load_from(lines, i + 1, DictSet(acc, lines[i].key, lines[i].val[1]))
    ELSE LET j == RunEnd(lines, i + 1)
             items == SelectSeq(SubSeq(lines, i + 1, j - 1), LAMBDA l : l.kind = "item")
         IN  IF items = <<>>
             THEN safe_load_from(lines, j, DictSet(acc, lines[i].key, PyNone))
             ELSE IF \E a, b \in 1..Len(items) : items[a].ind /= items[b].ind
             THEN ParseFailed
             ELSE safe_load_from(lines, j,
                     DictSet(acc, lines[i].key,
                             PyList([a \in 1..Len(items) |-> items[a].val[1]])))

safe_load(lines) == safe_load_from(lines, 1, <<>>)

----------------------------------------------------------------------------
(* main, the steps                                                         *)

\* Lines 140-142.
Compose ==
    /\ pc = "main"
    /\ \E order \in IterationOrders(used_keys(cfg.template)) :
          model_name' = ComposeName(cfg.template, order)
    /\ stdout' = Append(stdout, "model_name")
    /\ pc' = "check_head"
    /\ UNCHANGED <<cfg, cfg0, dirs, files, fsops, err, ser, ren, trn, vld>>

\* Lines 144-146. Reading a key the template does not hold raises, and so
\* does `in` on None.
CheckHead ==
    /\ pc = "check_head"
    /\ IF cfg.template.HEAD.k = "absent"
       THEN pc' = "raised" /\ err' = "ConfigAttributeError" /\ stdout' = stdout
       ELSE IF cfg.template.HEAD.k = "none"
       THEN pc' = "raised" /\ err' = "TypeError" /\ stdout' = stdout
       ELSE IF HeadMismatch(cfg.template)
       THEN pc' = "returned" /\ err' = err /\ stdout' = Append(stdout, "warn_head")
       ELSE pc' = "check_attention" /\ err' = err /\ stdout' = stdout
    /\ UNCHANGED <<cfg, cfg0, model_name, dirs, files, fsops, ser, ren, trn, vld>>

\* Lines 147-149.
CheckAttention ==
    /\ pc = "check_attention"
    /\ IF cfg.template.ATTENTION.k = "absent"
       THEN pc' = "raised" /\ err' = "ConfigAttributeError" /\ stdout' = stdout
       ELSE IF AttentionMismatch(cfg.template)
       THEN pc' = "returned" /\ err' = err /\ stdout' = Append(stdout, "warn_attention")
       ELSE pc' = "assign_name" /\ err' = err /\ stdout' = stdout
    /\ UNCHANGED <<cfg, cfg0, model_name, dirs, files, fsops, ser, ren, trn, vld>>

\* Lines 151-154: the name is assigned; the call of process_model on line 153
\* is commented out, so the template is not transformed.
AssignName ==
    /\ pc = "assign_name"
    /\ cfg' = [cfg EXCEPT !.template.name = Str(model_name)]
    /\ pc' = "makedirs"
    /\ UNCHANGED <<cfg0, model_name, dirs, files, stdout, fsops, err, ser, ren, trn, vld>>

\* Lines 155-160.
MakeDirs ==
    /\ pc = "makedirs"
    /\ IF USER_GENERATE_DIR(cfg) \notin dirs
       THEN /\ dirs' = dirs \cup {USER_GENERATE_DIR(cfg)}
            /\ fsops' = Append(fsops, [op |-> "makedirs", path |-> USER_GENERATE_DIR(cfg)])
       ELSE UNCHANGED <<dirs, fsops>>
    /\ pc' = "write"
    /\ UNCHANGED <<cfg, cfg0, model_name, files, stdout, err, ser, ren, trn, vld>>

\* Lines 162-186: the dict, the header, the document, the file.
WriteFile ==
    /\ pc = "write"
    /\ IF \E key \in HeaderKeys : cfg.template[key].k = "absent"
       THEN /\ pc' = "raised"
            /\ err' = "ConfigAttributeError"
            /\ UNCHANGED <<files, stdout, fsops>>
       ELSE LET path == yaml_path(cfg, model_name)
                content == [header |-> header_comment(cfg, model_name),
                            model |-> oc_to_dict(cfg.template),
                            text |-> format_yaml_content(model_dict(cfg.template))]
            IN  /\ files' = [q \in DOMAIN files \cup {path} |->
                                IF q = path THEN content ELSE files[q]]
                /\ fsops' = Append(fsops, [op |-> "write", path |-> path])
                /\ stdout' = Append(stdout, "created")
                /\ pc' = "returned"
                /\ err' = err
    /\ UNCHANGED <<cfg, cfg0, model_name, dirs, ser, ren, trn, vld>>

\* The templates main is run on: a backbone of HeadStart layers and a head
\* that refers to the backbone (6) and to its own first layer (10).
MainHead ==
    <<Layer(FromList(<<-1, 6>>), 1, ModConcat, <<1>>),
      Layer(FromList(<<6, 10>>), 1, ModDetect, <<256>>)>>

MainNames == {<<"y">>, <<"y", "4", "H", "e", "a", "d">>,
              <<"y", "a", "t", "t", "n">>,
              <<"y", "4", "H", "e", "a", "d", "a", "t", "t", "n">>}
MainDownsample == {Str(<<"A", "D">>), None, Absent}
MainConvolution == {Str(<<"G">>), Str(<<>>)}
MainFusion == {None}
MainHeadOption == {Str(<<"A", "4", "H", "e", "a", "d">>), Str(<<"A", "H">>), None, Absent}
MainAttention == {Str(<<"E", "I", "E">>), Str(<<>>), None, Absent}
MainRunNames == {DefaultRunName, <<"r", "1">>}

Init ==
    /\ \E nm \in MainNames, ds \in MainDownsample, cv \in MainConvolution,
          fu \in MainFusion, he \in MainHeadOption, at \in MainAttention,
          rn \in MainRunNames :
          cfg = Config(Template(Str(nm), HeadStart, MainHead, ds, cv, fu, he, at), rn)
    /\ cfg0 = cfg
    /\ pc = "main"
    /\ model_name = <<>>
    /\ dirs \in {{}, {USER_GENERATE_DIR(cfg)}}
    /\ files = <<>>
    /\ stdout = <<>>
    /\ fsops = <<>>
    /\ ser = NoSer
    /\ trn = NoTrain
    /\ vld = NoValidator
    /\ ren = NoRename
    /\ err = "none"

Next == Compose \/ CheckHead \/ CheckAttention \/ AssignName \/ MakeDirs \/ WriteFile

Spec == Init /\ [][Next]_vars

----------------------------------------------------------------------------
(* The serializer on its own: format, read back, format again              *)

\* Head layers that are LayerSpecs.
YamlHeads == {h \in Heads : \A i \in 1..Len(h) : h[i].from.k \in {"int", "list"}}
YamlBackbones == {0, 2}
YamlNames == {<<"y">>, <<"y", "-", "A", "D">>}
YamlDownsample == {Str(<<"A", "D">>), None}

\* Line 179: formatted_yaml = format_yaml_content(model).
FormatYaml ==
    /\ pc = "fmt_call"
    /\ ser' = [ser EXCEPT !.text = format_yaml_content(model_dict(cfg.template))]
    /\ pc' = "fmt_done"
    /\ UNCHANGED <<cfg, cfg0, model_name, dirs, files, stdout, fsops, err, ren, trn, vld>>

\* The document is read back with yaml.safe_load.
LoadBack ==
    /\ pc = "fmt_done"
    /\ ser' = [ser EXCEPT !.loaded = safe_load(ser.text)]
    /\ pc' = IF ser'.loaded.ok THEN "loaded" ELSE "load_failed"
    /\ UNCHANGED <<cfg, cfg0, model_name, dirs, files, stdout, fsops, err, ren, trn, vld>>

\* Lines 46-115 on the mapping read back.
FormatAgain ==
    /\ pc = "loaded"
    /\ ser' = [ser EXCEPT !.again = format_yaml_content(ser.loaded.map)]
    /\ pc' = "formatted_again"
    /\ UNCHANGED <<cfg, cfg0, model_name, dirs, files, stdout, fsops, err, ren, trn, vld>>

InitYaml ==
    /\ \E nm \in YamlNames, B \in YamlBackbones, hd \in YamlHeads,
          ds \in YamlDownsample :
          cfg = Config(Template(Str(nm), B, hd, ds, Str(<<"G">>), None,
                                Str(<<"A", "H">>), None), DefaultRunName)
    /\ cfg0 = cfg
    /\ pc = "fmt_call"
    /\ model_name = <<>>
    /\ dirs = {}
    /\ files = <<>>
    /\ stdout = <<>>
    /\ fsops = <<>>
    /\ ser = NoSer
    /\ trn = NoTrain
    /\ vld = NoValidator
    /\ ren = NoRename
    /\ err = "none"

NextYaml == FormatYaml \/ LoadBack \/ FormatAgain

SpecYaml == InitYaml /\ [][NextYaml]_vars

----------------------------------------------------------------------------
(* rename.py: process_filename, lines 12-78                                *)

Digits == {"0", "1", "2", "3", "4", "5", "6", "7", "8", "9"}
Letters == {"a", "b", "c", "d", "e", "f", "g", "h", "i", "j", "k", "l", "m",
            "n", "o", "p", "q", "r", "s", "t", "u", "v", "w", "x", "y", "z",
            "A", "B", "C", "D", "E", "F", "G", "H", "I", "J", "K", "L", "M",
            "N", "O", "P", "Q", "R", "S", "T", "U", "V", "W", "X", "Y", "Z"}
\* \w, and the class [a-zA-Z0-9_] of line 68.
WordChars == Letters \cup Digits \cup {"_"}

\* Line 23: os.path.splitext. The extension starts at the last dot, unless
\* only dots come before it.
splitext(p) ==
    LET dots == {i \in 1..Len(p) : p[i] = "."}
        dotIndex == IF dots = {} THEN 0
                    ELSE CHOOSE i \in dots : \A j \in dots : j <= i
    IN  IF dotIndex > 0 /\ \E j \in 1..(dotIndex - 1) : p[j] /= "."
        THEN [name |-> SubSeq(p, 1, dotIndex - 1), ext |-> SubSeq(p, dotIndex, Len(p))]
        ELSE [name |-> p, ext |-> <<>>]

\* str.zfill(3)
zfill3(d) == IF Len(d) >= 3 THEN d
             ELSE IF Len(d) = 2 THEN <<"0">> \o d
             ELSE IF Len(d) = 1 THEN <<"0", "0">> \o d
             ELSE <<"0", "0", "0">>

\* The index after the digits that start at p.
RECURSIVE DigitsEnd(_, _)
DigitsEnd(s, p) ==
    IF p <= Len(s) /\ s[p] \in Digits THEN DigitsEnd(s, p + 1) ELSE p

\* Lines 26-39: re.sub of (\d+)\.0(?=\s|$|[^0-9.]) from position p on.
RECURSIVE format_version_numbers_from(_, _)
format_version_numbers_from(s, p) ==
    IF p > Len(s) THEN <<>>
    ELSE LET q == DigitsEnd(s, p)
             matches == /\ q > p
                        /\ q + 1 <= Len(s)
                        /\ s[q] = "." /\ s[q + 1] = "0"
                        /\ (q + 2 > Len(s) \/ s[q + 2] \notin Digits \cup {"."})
         IN  IF matches
             THEN zfill3(SubSeq(s, p, q - 1)) \o format_version_numbers_from(s, q + 2)
             ELSE <<s[p]>> \o format_version_numbers_from(s, p + 1)

format_version_numbers(s) == format_version_numbers_from(s, 1)

\* Line 45: name.replace(' ', '_')
replace_spaces(s) == [i \in 1..Len(s) |-> IF s[i] = " " THEN "_" ELSE s[i]]

\* \b at the gap before position p.
WordBoundary(s, p) ==
    LET before == p > 1 /\ s[p - 1] \in WordChars
        after == p <= Len(s) /\ s[p] \in WordChars
    IN  before /= after

\* Lines 48-62: re.sub of \b\d{1,2}\b from position p on.
RECURSIVE format_remaining_numbers_from(_, _)
format_remaining_numbers_from(s, p) ==
    IF p > Len(s) THEN <<>>
    ELSE IF s[p] \in Digits /\ WordBoundary(s, p)
         THEN IF p + 1 <= Len(s) /\ s[p + 1] \in Digits /\ WordBoundary(s, p + 2)
              THEN zfill3(SubSeq(s, p, p + 1)) \o format_remaining_numbers_from(s, p + 2)
              ELSE IF WordBoundary(s, p + 1)
              THEN zfill3(SubSeq(s, p, p)) \o format_remaining_numbers_from(s, p + 1)
              ELSE <<s[p]>> \o format_remaining_numbers_from(s, p + 1)
         ELSE <<s[p]>> \o format_remaining_numbers_from(s, p + 1)

format_remaining_numbers(s) == format_remaining_numbers_from(s, 1)

\* Line 68: re.sub(r'[^a-zA-Z0-9_]', '_', name)
replace_other(s) == [i \in 1..Len(s) |-> IF s[i] \in WordChars THEN s[i] ELSE "_"]

\* Lines 71-72.
leading_underscore(s) == IF s /= <<>> /\ s[1] = "_" THEN s ELSE <<"_">> \o s

\* Line 75: re.sub(r'_{2,}', '_', name)
RECURSIVE collapse_underscores(_)
collapse_underscores(s) ==
    IF Len(s) < 2 THEN s
    ELSE IF s[1] = "_" /\ s[2] = "_" THEN collapse_underscores(Tail(s))
    ELSE <<s[1]>> \o collapse_underscores(Tail(s))

\* Lines 12-78.
process_filename(filename) ==
    LET parts == splitext(filename)
        n1 == format_version_numbers(parts.name)
        n2 == replace_spaces(n1)
        n3 == format_remaining_numbers(n2)
        n4 == replace_other(n3)
        n5 == leading_underscore(n4)
        n6 == collapse_underscores(n5)
    IN  n6 \o parts.ext

----------------------------------------------------------------------------
(* rename.py: rename_py_files, lines 80-122                                *)

PyExt == <<".", "p", "y">>

\* Line 93: f.endswith('.py')
EndsWithPy(f) == Len(f) >= Len(PyExt) /\ SubSeq(f, Len(f) - Len(PyExt) + 1, Len(f)) = PyExt

\* A directory: the names it holds, each a file or a symbolic link whose
\* target does not exist.
EntryKinds == {"file", "broken_link"}

\* Lines 88 and 109: os.path.exists follows symbolic links, so it is False
\* for a link whose target does not exist.
path_exists(entries, f) == f \in DOMAIN entries /\ entries[f] /= "broken_link"

\* Line 115: os.rename replaces whatever entry holds the new name.
os_rename(entries, old, new) ==
    [f \in (DOMAIN entries \ {old}) \cup {new} |->
        IF f = new THEN entries[old] ELSE entries[f]]

\* Lines 88-99: the directory is listed once.
ListDir ==
    /\ pc = "rn_call"
    /\ LET py == {f \in DOMAIN ren.entries : EndsWithPy(f)}
       IN  IF ~ ren.exists \/ py = {}
           THEN /\ pc' = "rn_done"
                /\ ren' = ren
           ELSE /\ pc' = "rn_loop"
                /\ ren' = [ren EXCEPT !.py_files = py]
    /\ UNCHANGED <<cfg, cfg0, model_name, dirs, files, stdout, fsops, ser, err, trn, vld>>

\* Lines 102-120: one turn of the loop; os.listdir gives the names in
\* arbitrary order, and os.rename can fail.
RenameOne ==
    /\ pc = "rn_loop"
    /\ \E filename \in ren.py_files, fails \in BOOLEAN :
          LET new_filename == process_filename(filename)
              rest == ren.py_files \ {filename}
              step(op) == [op |-> op, old |-> filename, new |-> new_filename,
                           held |-> new_filename \in DOMAIN ren.entries]
          IN  /\ ren' = IF filename = new_filename
                        THEN [ren EXCEPT !.py_files = rest,
                                         !.log = Append(@, step("same"))]
                        ELSE IF path_exists(ren.entries, new_filename)
                        THEN [ren EXCEPT !.py_files = rest,
                                         !.log = Append(@, step("exists"))]
                        ELSE IF fails \/ filename \notin DOMAIN ren.entries
                        THEN [ren EXCEPT !.py_files = rest,
                                         !.log = Append(@, step("error"))]
                        ELSE [ren EXCEPT !.py_files = rest,
                                         !.entries = os_rename(@, filename, new_filename),
                                         !.log = Append(@, step("rename"))]
              /\ pc' = IF rest = {} THEN "rn_done" ELSE "rn_loop"
    /\ UNCHANGED <<cfg, cfg0, model_name, dirs, files, stdout, fsops, ser, err, trn, vld>>

\* The names the directory can hold: three that are given the same new
\* name, two more that share another, and one that is not a .py file.
RenameNames ==
    {<<"a", " ", "b", ".", "p", "y">>, <<"a", "-", "b", ".", "p", "y">>,
     <<"_", "a", "_", "b", ".", "p", "y">>,
     <<"1", ".", "0", ".", "p", "y">>, <<"1", ".", "p", "y">>,
     <<"x", ".", "t", "x", "t">>}

InitRename ==
    /\ \E names \in SUBSET RenameNames, exists \in BOOLEAN :
          \E entries \in [names -> EntryKinds] :
              ren = [exists |-> exists,
                     entries |-> IF exists THEN entries ELSE <<>>,
                     entries0 |-> IF exists THEN entries ELSE <<>>,
                     py_files |-> {}, log |-> <<>>]
    /\ cfg = Config(Template(Str(<<"y">>), 0, <<>>, None, None, None, None, None),
                    DefaultRunName)
    /\ cfg0 = cfg
    /\ pc = "rn_call"
    /\ model_name = <<>>
    /\ dirs = {}
    /\ files = <<>>
    /\ stdout = <<>>
    /\ fsops = <<>>
    /\ ser = NoSer
    /\ trn = NoTrain
    /\ vld = NoValidator
    /\ err = "none"

NextRename == ListDir \/ RenameOne

SpecRename == InitRename /\ [][NextRename]_vars

----------------------------------------------------------------------------
(* train.py: main, lines 19-52                                             *)

MarkerYolo == <<"y", "o", "l", "o">>
MarkerRtdetr == <<"r", "t", "d", "e", "t", "r">>
DefaultModelName == <<"T", "e", "s", "t">>

\* Line 28: str.split("-")
RECURSIVE Split(_, _)
Split(s, sep) ==
    IF \E i \in 1..Len(s) : s[i] = sep
    THEN LET i == CHOOSE i \in 1..Len(s) : s[i] = sep /\ \A j \in 1..(i - 1) : s[j] /= sep
         IN  <<SubSeq(s, 1, i - 1)>> \o Split(SubSeq(s, i + 1, Len(s)), sep)
    ELSE <<s>>

\* Line 31: "yolo" in model_dict["name"]
SelectsYolo(name) == Contains(MarkerYolo, name)

\* Line 33: "rtdetr" in model_dict["name"], reached when line 31 is false.
SelectsRtdetr(name) == ~ SelectsYolo(name) /\ Contains(MarkerRtdetr, name)

\* Lines 21-29: the settings, the model dict, the default name, the tags.
PrepareName ==
    /\ pc = "tr_main"
    /\ trn' = IF trn.name.k \in {"none", "absent"}
              THEN [trn EXCEPT !.name = Str(DefaultModelName), !.settings = trn.use_wandb]
              ELSE [trn EXCEPT !.tags = Split(trn.name.v, "-"), !.settings = trn.use_wandb]
    /\ stdout' = Append(stdout, "model_name")
    /\ pc' = "tr_construct"
    /\ UNCHANGED <<cfg, cfg0, model_name, dirs, files, fsops, ser, ren, vld, err>>

\* Lines 30-37: the constructor chosen by the name; an exception in it is
\* reported and main returns. A name with neither marker binds nothing.
ConstructModel ==
    /\ pc = "tr_construct"
    /\ LET class == IF SelectsYolo(trn.name.v) THEN "YOLO"
                    ELSE IF SelectsRtdetr(trn.name.v) THEN "RTDETR"
                    ELSE "unbound"
       IN  IF class /= "unbound" /\ trn.ctor_raises
           THEN /\ trn' = [trn EXCEPT !.calls = Append(@, class)]
                /\ stdout' = Append(stdout, "init_error")
                /\ pc' = "tr_returned"
           ELSE /\ trn' = [trn EXCEPT !.model = class,
                                      !.calls = IF class = "unbound" THEN @
                                                ELSE Append(@, class)]
                /\ stdout' = stdout
                /\ pc' = "tr_train"
    /\ UNCHANGED <<cfg, cfg0, model_name, dirs, files, fsops, ser, ren, vld, err>>

\* Lines 39-52: model.train(...); reading the local `model` before it was
\* bound raises UnboundLocalError.
CallTrain ==
    /\ pc = "tr_train"
    /\ IF trn.model = "unbound"
       THEN /\ pc' = "raised"
            /\ err' = "UnboundLocalError"
            /\ trn' = trn
       ELSE /\ pc' = "tr_trained"
            /\ err' = err
            /\ trn' = [trn EXCEPT !.calls = Append(@, "train")]
    /\ UNCHANGED <<cfg, cfg0, model_name, dirs, files, stdout, fsops, ser, ren, vld>>

\* The names of cfg.model: missing, null, with either marker, with both,
\* with neither.
TrainNames ==
    {Absent, None,
     Str(<<"y", "o", "l", "o">>), Str(<<"y", "o", "l", "o", "-", "A", "D">>),
     Str(<<"r", "t", "d", "e", "t", "r">>), Str(<<"r", "t", "d", "e", "t", "r", "-", "l">>),
     Str(<<"y", "o", "l", "o", "-", "r", "t", "d", "e", "t", "r">>),
     Str(<<"r", "t", "d", "e", "t", "r", "-", "y", "o", "l", "o">>),
     Str(<<"y">>), Str(<<"y", "-", "A", "D">>), Str(<<"T", "e", "s", "t">>),
     Str(<<"Y", "O", "L", "O">>), Str(<<>>), Str(<<"r", "t", "-", "d", "e", "t", "r">>)}

InitTrain ==
    /\ \E name \in TrainNames, ctor_raises \in BOOLEAN, use_wandb \in BOOLEAN :
          trn = [name |-> name, name0 |-> name, tags |-> <<>>, settings |-> FALSE,
                 use_wandb |-> use_wandb, ctor_raises |-> ctor_raises,
                 model |-> "unbound", calls |-> <<>>]
    /\ cfg = Config(Template(Str(<<"y">>), 0, <<>>, None, None, None, None, None),
                    DefaultRunName)
    /\ cfg0 = cfg
    /\ pc = "tr_main"
    /\ model_name = <<>>
    /\ dirs = {}
    /\ files = <<>>
    /\ stdout = <<>>
    /\ fsops = <<>>
    /\ ser = NoSer
    /\ ren = NoRename
    /\ vld = NoValidator
    /\ err = "none"

NextTrain == PrepareName \/ ConstructModel \/ CallTrain

SpecTrain == InitTrain /\ [][NextTrain]_vars

----------------------------------------------------------------------------
(* api/model_test.py: YOLOModelValidator, lines 19-485                     *)

\* Lines 433-441: the tests in the order run_validation calls them.
TestOrder ==
    <<"test_model_info", "test_model_parameters", "test_device_compatibility",
      "test_forward_pass", "test_gradient_computation", "test_model_fuse",
      "test_memory_usage">>

\* Lines 59-67: validation_results['tests'][test_name] = result.
log_test_result(v, test_name, status) ==
    [v EXCEPT !.tests = [k \in DOMAIN v.tests \cup {test_name} |->
                            IF k = test_name THEN status ELSE v.tests[k]]]

\* Lines 449-457: the call of one test and the count of its return value.
Tally(v, returned) ==
    [v EXCEPT !.calls = Append(@, TestOrder[v.i]),
              !.i = @ + 1,
              !.passed_tests = IF returned THEN @ + 1 ELSE @,
              !.failed_tests = IF returned THEN @ ELSE @ + 1]

\* The test the loop of line 449 is at.
AtTest(fn) == pc = "rv_loop" /\ vld.i <= Len(TestOrder) /\ TestOrder[vld.i] = fn

\* torch.cuda.is_available() and self.device == 'cuda'
OnCuda(v) == v.cuda_available /\ v.device = "cuda"

\* Lines 418-430: with no model loaded the tests are skipped.
StartValidation ==
    /\ pc = "rv_call"
    /\ IF vld.model = "none"
       THEN /\ vld' = [vld EXCEPT !.overall_status = "FAIL"]
            /\ pc' = "rv_returned"
       ELSE /\ vld' = vld
            /\ pc' = "rv_loop"
    /\ UNCHANGED <<cfg, cfg0, model_name, dirs, files, stdout, fsops, ser, ren, trn, err>>

\* Lines 78-96: model.info can raise.
test_model_info ==
    /\ AtTest("test_model_info")
    /\ \E raises \in BOOLEAN :
          vld' = IF raises
                 THEN Tally(log_test_result(vld, "model_info", "FAIL"), FALSE)
                 ELSE Tally(log_test_result(vld, "model_info", "PASS"), TRUE)
    /\ pc' = pc
    /\ UNCHANGED <<cfg, cfg0, model_name, dirs, files, stdout, fsops, ser, ren, trn, err>>

\* Lines 98-133.
test_model_parameters ==
    /\ AtTest("test_model_parameters")
    /\ \E raises \in BOOLEAN :
          vld' = IF raises
                 THEN Tally(log_test_result(vld, "parameters", "FAIL"), FALSE)
                 ELSE IF vld.has_parameters
                 THEN Tally(log_test_result(vld, "parameters", "PASS"), TRUE)
                 ELSE Tally(log_test_result(vld, "parameters", "SKIP"), TRUE)
    /\ pc' = pc
    /\ UNCHANGED <<cfg, cfg0, model_name, dirs, files, stdout, fsops, ser, ren, trn, err>>

\* Lines 135-168: without CUDA the test warns, falls back to the CPU and
\* returns True; moving the model to the GPU can raise.
test_device_compatibility ==
    /\ AtTest("test_device_compatibility")
    /\ \E raises \in BOOLEAN :
          vld' = IF vld.device = "cuda" /\ ~ vld.cuda_available
                 THEN Tally([log_test_result(vld, "device_compatibility", "WARNING")
                                EXCEPT !.device = "cpu"], TRUE)
                 ELSE IF vld.device = "cuda" /\ vld.has_parameters /\ raises
                 THEN Tally(log_test_result(vld, "device_compatibility", "FAIL"), FALSE)
                 ELSE Tally(log_test_result(vld, "device_compatibility", "PASS"), TRUE)
    /\ pc' = pc
    /\ UNCHANGED <<cfg, cfg0, model_name, dirs, files, stdout, fsops, ser, ren, trn, err>>

\* Lines 170-225: torch.rand raises on a bad image size; the raw model is
\* put into eval mode and called, which can raise; a failure of predict is
\* only noted, so `results` is never empty.
test_forward_pass ==
    /\ AtTest("test_forward_pass")
    /\ \E raises \in BOOLEAN :
          vld' = IF ~ vld.imgsz_ok
                 THEN Tally(log_test_result(vld, "forward_pass", "FAIL"), FALSE)
                 ELSE IF vld.has_parameters /\ raises
                 THEN Tally([log_test_result(vld, "forward_pass", "FAIL")
                                EXCEPT !.training = FALSE], FALSE)
                 ELSE IF vld.has_parameters
                 THEN Tally([log_test_result(vld, "forward_pass", "PASS")
                                EXCEPT !.training = FALSE], TRUE)
                 ELSE Tally(log_test_result(vld, "forward_pass", "PASS"), TRUE)
    /\ pc' = pc
    /\ UNCHANGED <<cfg, cfg0, model_name, dirs, files, stdout, fsops, ser, ren, trn, err>>

\* What can happen between line 287 and line 353, the model being in train
\* mode.
GradientOutcomes ==
    {"forward_raises", "unsupported_output", "loss_without_grad",
     "backward_raises", "gradients", "no_gradients"}

\* Lines 336 and 357: the paths on which train(original_training_mode) is
\* called. The return of line 314 and the handler of line 364 do not call it.
RestoresMode(outcome) ==
    outcome \in {"unsupported_output", "backward_raises", "gradients", "no_gradients"}

\* Lines 310-314, 340-369: the status logged on each path.
GradientStatus(outcome) ==
    IF outcome = "gradients" THEN "PASS"
    ELSE IF outcome = "loss_without_grad" THEN "WARNING"
    ELSE "FAIL"

\* Lines 249-369.
test_gradient_computation ==
    /\ AtTest("test_gradient_computation")
    /\ \E o \in GradientOutcomes :
          LET \* torch.randn of line 287 raises on a bad image size, which
              \* ends in the handler of line 364 like a failing forward pass
              outcome == IF vld.imgsz_ok THEN o ELSE "forward_raises"
              saved == [vld EXCEPT !.original_training_mode = <<vld.training>>,
                                   !.training = TRUE]
              left == IF RestoresMode(outcome)
                      THEN [saved EXCEPT !.training = vld.training]
                      ELSE saved
          IN  vld' = IF ~ vld.has_parameters
                     THEN Tally(log_test_result(vld, "gradient_computation", "SKIP"), TRUE)
                     ELSE Tally(log_test_result(left, "gradient_computation",
                                                GradientStatus(outcome)),
                                outcome = "gradients")
    /\ pc' = pc
    /\ UNCHANGED <<cfg, cfg0, model_name, dirs, files, stdout, fsops, ser, ren, trn, err>>

\* Lines 227-247: a failure of fuse is logged as a warning and the test
\* returns False.
test_model_fuse ==
    /\ AtTest("test_model_fuse")
    /\ \E raises \in BOOLEAN :
          vld' = IF vld.has_fuse /\ raises
                 THEN Tally(log_test_result(vld, "model_fuse", "WARNING"), FALSE)
                 ELSE IF vld.has_fuse
                 THEN Tally(log_test_result(vld, "model_fuse", "PASS"), TRUE)
                 ELSE Tally(log_test_result(vld, "model_fuse", "SKIP"), TRUE)
    /\ pc' = pc
    /\ UNCHANGED <<cfg, cfg0, model_name, dirs, files, stdout, fsops, ser, ren, trn, err>>

\* Lines 371-416: a failure on the GPU is logged as a warning and the test
\* returns False.
test_memory_usage ==
    /\ AtTest("test_memory_usage")
    /\ \E raises \in BOOLEAN :
          vld' = IF OnCuda(vld) /\ (raises \/ ~ vld.imgsz_ok)
                 THEN Tally(log_test_result(vld, "memory_check", "WARNING"), FALSE)
                 ELSE IF OnCuda(vld)
                 THEN Tally(log_test_result(vld, "memory_check", "PASS"), TRUE)
                 ELSE Tally(log_test_result(vld, "memory_check", "SKIP"), TRUE)
    /\ pc' = pc
    /\ UNCHANGED <<cfg, cfg0, model_name, dirs, files, stdout, fsops, ser, ren, trn, err>>

\* Lines 469-477.
OverallStatus(passed_tests, failed_tests) ==
    IF failed_tests = 0 THEN "PASS"
    ELSE IF passed_tests > failed_tests THEN "PARTIAL"
    ELSE "FAIL"

\* Lines 459-485: the loop is over.
FinishValidation ==
    /\ pc = "rv_loop"
    /\ vld.i > Len(TestOrder)
    /\ vld' = [vld EXCEPT !.overall_status = OverallStatus(vld.passed_tests, vld.failed_tests),
                          !.summary = <<[passed |-> vld.passed_tests,
                                         failed |-> vld.failed_tests]>>]
    /\ pc' = "rv_returned"
    /\ UNCHANGED <<cfg, cfg0, model_name, dirs, files, stdout, fsops, ser, ren, trn, err>>

\* Lines 22-44: the validator after __init__; load_model leaves the model
\* None when YOLO() raises. has_parameters: model.model is a torch module
\* (it has parameters, eval, cuda and can be called).
InitValidate ==
    /\ \E model \in {"none", "YOLO"}, device \in {"cpu", "cuda"},
          cuda_available, imgsz_ok, has_parameters, has_fuse, training \in BOOLEAN :
          vld = [model |-> model, device |-> device, cuda_available |-> cuda_available,
                 imgsz_ok |-> imgsz_ok,
                 has_parameters |-> model /= "none" /\ has_parameters,
                 has_fuse |-> model /= "none" /\ has_fuse,
                 training |-> model /= "none" /\ training,
                 original_training_mode |-> <<>>,
                 tests |-> <<>>, overall_status |-> "UNKNOWN", summary |-> <<>>,
                 calls |-> <<>>, i |-> 1, passed_tests |-> 0, failed_tests |-> 0]
    /\ cfg = Config(Template(Str(<<"y">>), 0, <<>>, None, None, None, None, None),
                    DefaultRunName)
    /\ cfg0 = cfg
    /\ pc = "rv_call"
    /\ model_name = <<>>
    /\ dirs = {}
    /\ files = <<>>
    /\ stdout = <<>>
    /\ fsops = <<>>
    /\ ser = NoSer
    /\ ren = NoRename
    /\ trn = NoTrain
    /\ err = "none"

NextValidate ==
    \/ StartValidation
    \/ test_model_info
    \/ test_model_parameters
    \/ test_device_compatibility
    \/ test_forward_pass
    \/ test_gradient_computation
    \/ test_model_fuse
    \/ test_memory_usage
    \/ FinishValidation

SpecValidate == InitValidate /\ [][NextValidate]_vars

----------------------------------------------------------------------------
(* Properties of main (checked under Spec)                                 *)

Last(q) == q[Len(q)]
Range(q) == {q[i] : i \in 1..Len(q)}

\* The indices of a `from`, by position (an int is position 1).
Indices(f) == IF f.k = "int" THEN <<f.n>> ELSE f.l

\* main has written the output file.
Written == Len(stdout) > 0 /\ Last(stdout) = "created"

\* The document main wrote.
WrittenFile == files[yaml_path(cfg, model_name)]

\* The family name of the template, as supplied.
Name0 == cfg0.template.name.v

\* The check of rule 1 / rule 2 has been made and the request passed it.
PassedHead == pc \in {"check_attention", "assign_name", "makedirs", "write"}
                 \/ "warn_attention" \in Range(stdout) \/ Written
                 \/ (pc = "raised" /\ cfg0.template.HEAD.k = "str")
PassedAttention == pc \in {"assign_name", "makedirs", "write"} \/ Written
                      \/ (pc = "raised" /\ cfg.template.name /= cfg0.template.name)
RejectedHead == "warn_head" \in Range(stdout)
RejectedAttention == "warn_attention" \in Range(stdout)

\* C1: for every request that passes both consistency rules and has an
\* attention module selected, the document written to the output file has a
\* backbone whose last entry is [-1, 1, <ATTENTION>, []] and head absolute
\* references >= 10 shifted by one relative to the input template.
C1_TransformerRuns ==
    (Written /\ Truthy(cfg0.template.ATTENTION)) =>
        LET bb == DictGet(WrittenFile.model, "backbone")
            hd == DictGet(WrittenFile.model, "head")
        IN  /\ Len(bb) = Len(cfg0.template.backbone) + 1
            /\ bb[Len(bb)] = [from |-> FromInt(-1), repeats |-> 1,
                              module |-> cfg0.template.ATTENTION.v, args |-> <<>>]
            /\ \A j \in 1..Len(hd) :
                  \A p \in 1..Len(Indices(hd[j].from)) :
                      LET old == Indices(cfg0.template.head[j].from)[p]
                      IN  Indices(hd[j].from)[p] = IF old >= 10 THEN old + 1 ELSE old

C8_Rule2NonEmpty ==
    /\ PassedAttention =>
          (Contains(MarkerAttn, Name0) <=> Truthy(cfg0.template.ATTENTION))
    /\ RejectedAttention =>
          ~ (Contains(MarkerAttn, Name0) <=> Truthy(cfg0.template.ATTENTION))

\* C9 as stated: the marker test of rule 1 is made on the composed name, so
\* that the request is rejected by rule 1 exactly when '4Head' is in the
\* composed name and not in HEAD, or the reverse.
C9_ChecksOnComposedName ==
    (cfg0.template.HEAD.k = "str" /\ (PassedHead \/ RejectedHead)) =>
        (RejectedHead <=> Xor(Contains(Marker4Head, model_name),
                              Contains(Marker4Head, cfg0.template.HEAD.v)))

\* C9: both marker tests are made on template.name as supplied, which main
\* replaces by the composed name only after both tests have passed: rule 1
\* rejects exactly when '4Head' is in the supplied name and not in HEAD, or
\* the reverse, rule 2 exactly when 'attn' is in the supplied name and
\* ATTENTION is None, or the reverse; a template whose family name lacks
\* '4Head' and whose HEAD value contains it is rejected by rule 1.
C9_ChecksOnTemplateName ==
    /\ pc \in {"main", "check_head", "check_attention"} => cfg = cfg0
    /\ (cfg0.template.HEAD.k = "str" /\ (PassedHead \/ RejectedHead)) =>
          (RejectedHead <=> Xor(Contains(Marker4Head, Name0),
                                Contains(Marker4Head, cfg0.template.HEAD.v)))
    /\ (PassedAttention \/ RejectedAttention) =>
          (RejectedAttention <=> Xor(Contains(MarkerAttn, Name0),
                                     cfg0.template.ATTENTION.k /= "none"))
    /\ (~ Contains(Marker4Head, Name0) /\ cfg0.template.HEAD.k = "str"
           /\ Contains(Marker4Head, cfg0.template.HEAD.v))
       => (pc \in {"main", "check_head"} \/ (pc = "returned" /\ RejectedHead))

C9_Witness ==
    /\ pc = "returned"
    /\ ~ Contains(Marker4Head, Name0)
    /\ Contains(Marker4Head, cfg0.template.HEAD.v)
    /\ Contains(Marker4Head, model_name)
    /\ stdout = <<"model_name", "warn_head">>

\* C10: the composed name is a function of the template alone: the supplied
\* name, then the values of the non-empty option fields joined in the
\* template's declared field order.
C10_DeclaredOrderName ==
    pc /= "main" => model_name = ComposeName(cfg0.template, DeclaredOrder(cfg0.template))

\* C11: the composed name holds no empty segment: for every template, one
\* whose option fields are all empty included, it does not end with '-' and
\* holds no '--' (the supplied names and option values hold no '-').
C11_NoEmptySegment ==
    pc /= "main" =>
        /\ Last(model_name) /= "-"
        /\ ~ Contains(<<"-", "-">>, model_name)

\* The directory and the file C13 names, written out from the inputs.
C13_Dir ==
    <<<<"c", "o", "n", "f", "i", "g", "s">>, <<"m", "o", "d", "e", "l">>,
      cfg0.user, <<"g", "e", "n", "e", "r", "a", "t", "e">>,
      IF cfg0.run_name = <<"c", "r", "e", "a", "t", "e">>
      THEN cfg0.time
      ELSE cfg0.time \o <<"-">> \o cfg0.run_name>>
C13_File == Append(C13_Dir, model_name \o <<".", "y", "a", "m", "l">>)

\* C13: for an accepted request the output file is
\* configs/model/<user>/generate/<D>/<final-name>.yaml under the root, where
\* D is <time> for the run name 'create' and <time>-<run_name> for every
\* other one; the directory exists once main is past line 158, created by
\* main when it was absent; and <final-name> is the `name` of the dict that
\* is serialized into the file.
C13_OutputPath ==
    /\ (pc = "write" \/ Written) =>
          /\ C13_Dir \in dirs
          /\ \A i \in 1..Len(fsops) :
                fsops[i].op = "makedirs" => i = 1 /\ fsops[i].path = C13_Dir
    /\ Written =>
          /\ DOMAIN files = {C13_File}
          /\ Last(fsops) = [op |-> "write", path |-> C13_File]
          /\ DictGet(files[C13_File].model, "name") = Str(model_name)

C13_Witness ==
    /\ Written
    /\ cfg0.run_name = <<"r", "1">>
    /\ fsops = <<[op |-> "makedirs", path |-> C13_Dir],
                 [op |-> "write", path |-> C13_File]>>
    /\ C13_File \in DOMAIN files

\* C14: the header of the written file shows the template's own name as
\* supplied before composition in its template field and the composed final
\* name in its model-name field.
C14_HeaderTemplateName ==
    Written =>
        /\ WrittenFile.header.template = Name0
        /\ WrittenFile.header.model_name = model_name

\* The name and the option fields disagree under rule 1 or rule 2, a HEAD or
\* ATTENTION that is absent or None counting as an option without marker and
\* as no attention module.
C15_Disagree ==
    \/ Xor(Contains(Marker4Head, Name0),
           cfg0.template.HEAD.k = "str" /\ Contains(Marker4Head, cfg0.template.HEAD.v))
    \/ Xor(Contains(MarkerAttn, Name0), cfg0.template.ATTENTION.k = "str")

\* C15: a rejection is always a normal return: on every template whose name
\* and option fields disagree under rule 1 or rule 2, a template whose HEAD
\* or ATTENTION is absent or None included, main does not raise, and it ends
\* by returning after a warning.
C15_RejectionReturns ==
    C15_Disagree =>
        /\ pc /= "raised"
        /\ pc = "returned" => (RejectedHead \/ RejectedAttention)

----------------------------------------------------------------------------
(* Properties of process_model (checked under SpecPM)                      *)

\* process_model has returned, and an attention module was selected on entry.
Inserted == pc = "pm_returned" /\ AttentionSelected(cfg0.template)

Head0 == cfg0.template.head
Head1 == cfg.template.head
Backbone0 == cfg0.template.backbone
Backbone1 == cfg.template.backbone

\* C2: attention insertion preserves referential integrity for every backbone
\* length B: after process_model every non-negative `from` index of every
\* head layer is its old value plus one exactly when the old value is at or
\* after the old backbone length B (the position of the inserted layer), so
\* that it designates the layer it designated before.
C2_ReferentialIntegrity ==
    Inserted =>
        \A j \in 1..Len(Head0) :
            /\ Len(Indices(Head1[j].from)) = Len(Indices(Head0[j].from))
            /\ \A p \in 1..Len(Indices(Head0[j].from)) :
                  LET old == Indices(Head0[j].from)[p]
                      new == Indices(Head1[j].from)[p]
                  IN  old >= 0 =>
                         new = IF old >= Len(Backbone0) THEN old + 1 ELSE old

\* C3: with ATTENTION set, a head layer's single-integer `from` that is >= 10
\* becomes the value plus one, and one that is < 10 (every negative offset
\* included) stays as it was.
C3_SingleFromShift ==
    Inserted =>
        \A j \in 1..Len(Head0) :
            Head0[j].from.k = "int" =>
                /\ Head1[j].from.k = "int"
                /\ Head0[j].from.n >= 10 => Head1[j].from.n = Head0[j].from.n + 1
                /\ Head0[j].from.n < 10 => Head1[j].from.n = Head0[j].from.n

C3_Witness ==
    /\ Inserted
    /\ \E j \in 1..Len(Head0) :
          /\ Head0[j].from.k = "int"
          /\ Head0[j].from.n >= 10
          /\ Head1[j].from.n = Head0[j].from.n + 1

\* C4: with ATTENTION set, a list `from` is rewritten element by element:
\* every element >= 10 is incremented by exactly one, every negative element
\* and every element in [0, 10) is unchanged, and the list keeps its length
\* and the order of its elements.
C4_ListFromShift ==
    Inserted =>
        \A j \in 1..Len(Head0) :
            Head0[j].from.k = "list" =>
                /\ Head1[j].from.k = "list"
                /\ Len(Head1[j].from.l) = Len(Head0[j].from.l)
                /\ \A p \in 1..Len(Head0[j].from.l) :
                      Head1[j].from.l[p] =
                          IF Head0[j].from.l[p] >= 10
                          THEN Head0[j].from.l[p] + 1
                          ELSE Head0[j].from.l[p]

C4_Witness ==
    /\ Inserted
    /\ \E j \in 1..Len(Head0) :
          /\ Head0[j].from = FromList(<<-1, 12>>)
          /\ Head1[j].from = FromList(<<-1, 13>>)

\* C5: with ATTENTION set, process_model appends exactly one LayerSpec
\* [-1, 1, <ATTENTION>, []] at the end of the backbone: the backbone grows by
\* one, its old entries keep content and order, the head keeps its length,
\* and the other fields of every head layer are kept (a backbone of 10 gains
\* an 11th entry and [12, 1, Detect, [256]] becomes [13, 1, Detect, [256]]).
C5_AppendOneLayer ==
    Inserted =>
        /\ Len(Backbone1) = Len(Backbone0) + 1
        /\ \A i \in 1..Len(Backbone0) : Backbone1[i] = Backbone0[i]
        /\ Backbone1[Len(Backbone1)] =
              [from |-> FromInt(-1), repeats |-> 1,
               module |-> cfg0.template.ATTENTION.v, args |-> <<>>]
        /\ Len(Head1) = Len(Head0)
        /\ \A j \in 1..Len(Head0) :
              /\ Head1[j].repeats = Head0[j].repeats
              /\ Head1[j].module = Head0[j].module
              /\ Head1[j].args = Head0[j].args
        /\ (Len(Backbone0) = 10 /\ Len(Head0) >= 1
               /\ Head0[1] = Layer(FromInt(12), 1, ModDetect, <<256>>))
           => Head1[1] = Layer(FromInt(13), 1, ModDetect, <<256>>)

C5_Witness ==
    /\ Inserted
    /\ Len(Backbone0) = 10
    /\ Len(Backbone1) = 11
    /\ Head0 = <<Layer(FromInt(12), 1, ModDetect, <<256>>)>>
    /\ Head1 = <<Layer(FromInt(13), 1, ModDetect, <<256>>)>>

\* Every non-negative `from` index of every head layer of template t is a
\* position of its backbone+head sequence.
NoDangling(t) ==
    \A j \in 1..Len(t.head) :
        \A p \in 1..Len(Indices(t.head[j].from)) :
            Indices(t.head[j].from)[p] >= 0 =>
                Indices(t.head[j].from)[p] < Len(t.backbone) + Len(t.head)

\* C6: if before process_model every non-negative `from` index of the head
\* is a position of the backbone+head sequence, then so is every one after
\* it, in the sequence extended by the inserted layer.
C6_NoDanglingAfter ==
    (Inserted /\ NoDangling(cfg0.template)) =>
        /\ Len(Backbone1) + Len(Head1) = Len(Backbone0) + Len(Head0) + 1
        /\ NoDangling(cfg.template)

C6_Witness ==
    /\ Inserted
    /\ NoDangling(cfg0.template)
    /\ \E j \in 1..Len(Head0) :
          /\ Head0[j].from.k = "int"
          /\ Head0[j].from.n = Len(Backbone0) + Len(Head0) - 1
          /\ Head1[j].from.n = Len(Backbone1) + Len(Head1) - 1

\* C12: when no attention module is selected (ATTENTION absent, None or
\* empty), process_model returns, and returns the template unchanged:
\* backbone and head keep their length and every LayerSpec field.
C12_PassThrough ==
    (pc /= "pm_call" /\ ~ AttentionSelected(cfg0.template)) =>
        /\ pc = "pm_returned"
        /\ cfg.template = cfg0.template

----------------------------------------------------------------------------
(* Properties of the serializer                                            *)

Formatted == pc \in {"fmt_done", "loaded", "load_failed", "formatted_again"}

\* The mapping that was serialized.
Model0 == model_dict(cfg0.template)

\* The value v is written in the text: on one line, or item by item.
InText(text, v) ==
    \/ \E i \in 1..Len(text) : text[i].val = <<v>>
    \/ /\ v.t = "list" /\ v.items /= <<>>
       /\ \A a \in 1..Len(v.items) : \E i \in 1..Len(text) : text[i].val = <<v.items[a]>>

\* The items written under the key at line i, up to the next key.
ItemsUnder(text, i) ==
    SelectSeq(SubSeq(text, i + 1, RunEnd(text, i + 1) - 1), LAMBDA l : l.kind = "item")

\* The items of a section as the document should show them.
IndentedItems(v) == [a \in 1..Len(v.items) |-> ItemLine(2, v.items[a])]

\* C16: the three values of `scales` are written as one inline sequence on
\* the line of the `scales` key, the comment '# [depth, width,
\* max_channels]' is the next line, and every value of the input mapping is
\* found in the output document.
C16_ScalesInline ==
    Formatted =>
        /\ \E i \in 1..(Len(ser.text) - 1) :
              /\ ser.text[i] = KeyLine(0, "scales", <<PyInts(cfg0.template.scales)>>)
              /\ ser.text[i + 1] = CommentLine(2, ScalesComment)
        /\ \A a \in 1..Len(Model0) : InText(ser.text, Model0[a].value)

\* The layout of the two sections apart from where the blank line goes:
\* there is one `backbone:` line, and the items of backbone and of head
\* follow their key, in order, indented two spaces.
C17_Sections ==
    /\ \E i \in 1..Len(ser.text) : IsBackboneKey(ser.text[i])
    /\ \A i \in 1..Len(ser.text) :
          /\ IsBackboneKey(ser.text[i]) =>
                ItemsUnder(ser.text, i) = IndentedItems(PyLayers(cfg0.template.backbone))
          /\ IsHeadKey(ser.text[i]) =>
                /\ i > 1 /\ ser.text[i - 1] = BlankLine
                /\ ItemsUnder(ser.text, i) = IndentedItems(PyLayers(cfg0.template.head))

\* C17 as stated: `backbone:` is immediately followed by a blank line and
\* then by the comment '# [from, repeats, module, args]'; a blank line is
\* immediately before `head:`; every item of backbone and head is indented
\* two spaces.
C17_BlankAfterBackbone ==
    Formatted =>
        /\ C17_Sections
        /\ \A i \in 1..Len(ser.text) :
              IsBackboneKey(ser.text[i]) =>
                  /\ i + 2 <= Len(ser.text)
                  /\ ser.text[i + 1] = BlankLine
                  /\ ser.text[i + 2] = CommentLine(2, LayerComment)

\* C17 amended: a blank line is immediately before `backbone:` and the
\* comment '# [from, repeats, module, args]' is immediately after it; a
\* blank line is immediately before `head:`; every item of backbone and
\* head is indented two spaces.
C17_BlankBeforeBackbone ==
    Formatted =>
        /\ C17_Sections
        /\ \A i \in 1..Len(ser.text) :
              IsBackboneKey(ser.text[i]) =>
                  /\ i > 1 /\ i + 1 <= Len(ser.text)
                  /\ ser.text[i - 1] = BlankLine
                  /\ ser.text[i + 1] = CommentLine(2, LayerComment)

\* A document with items in both sections has been written.
C17_Witness ==
    /\ pc = "fmt_done"
    /\ Len(cfg0.template.backbone) >= 2
    /\ Len(cfg0.template.head) >= 1
    /\ cfg0.template.head[1].from.k = "list"

\* C18: the document reads back as a mapping, and formatting that mapping
\* gives the same lines as the first document.
C18_RoundTrip ==
    /\ pc /= "load_failed"
    /\ pc = "formatted_again" => ser.again = ser.text

\* A round trip of a document with items in both sections and a null option.
C18_Witness ==
    /\ pc = "formatted_again"
    /\ Len(cfg0.template.backbone) >= 2
    /\ Len(cfg0.template.head) >= 1
    /\ cfg0.template.DOWNSAMPLE = None
    /\ ser.loaded.map /= Model0

----------------------------------------------------------------------------
(* Properties of rename_py_files                                           *)

\* The .py names the directory held at the start.
PyFiles0 == {f \in DOMAIN ren.entries0 : EndsWithPy(f)}

\* The loop renamed f.
Renamed(f) == \E i \in 1..Len(ren.log) : ren.log[i].op = "rename" /\ ren.log[i].old = f

\* C20: a file is renamed only when no entry holds the new name at that
\* moment; after the run the directory holds as many entries as before;
\* and of two files that are given the same new name exactly one is
\* renamed while the other keeps its old name.
C20_NeverOverwrites ==
    /\ \A i \in 1..Len(ren.log) : ren.log[i].op = "rename" => ~ ren.log[i].held
    /\ pc = "rn_done" =>
          /\ Cardinality(DOMAIN ren.entries) = Cardinality(DOMAIN ren.entries0)
          /\ \A f, g \in PyFiles0 :
                (f /= g /\ process_filename(f) = process_filename(g)) =>
                    \/ Renamed(f) /\ ~ Renamed(g) /\ g \in DOMAIN ren.entries
                    \/ Renamed(g) /\ ~ Renamed(f) /\ f \in DOMAIN ren.entries

----------------------------------------------------------------------------
(* Properties of train.py                                                  *)

\* main has got past the try statement of lines 30-37.
PastConstruction == pc \in {"tr_train", "tr_trained", "tr_returned", "raised"}

\* C21: past the try statement main has either constructed a YOLO or
\* RTDETR model or returned, and train is called only on a constructed
\* model.
C21_TrainOnConstructedModel ==
    /\ PastConstruction =>
          \/ trn.model \in {"YOLO", "RTDETR"}
          \/ pc = "tr_returned"
    /\ pc = "tr_trained" => trn.model \in {"YOLO", "RTDETR"}

----------------------------------------------------------------------------
(* Properties of the validator                                             *)

\* test_gradient_computation has returned after saving the mode and
\* switching the model to train mode.
GradientTestRan ==
    /\ "test_gradient_computation" \in Range(vld.calls)
    /\ vld.original_training_mode /= <<>>

\* C22: when test_gradient_computation has returned after saving the mode
\* and switching to train mode, the model's training flag is the one it had
\* on entry.
C22_TrainingModeRestored ==
    GradientTestRan =>
        vld.training = vld.original_training_mode[1]

\* C23: after run_validation on a loaded model the seven tests have been
\* called once each in the listed order, passed + failed = 7, and the
\* overall status is 'PASS' exactly when no test recorded 'FAIL'.
C23_OverallStatus ==
    (pc = "rv_returned" /\ vld.model /= "none") =>
        /\ vld.calls = TestOrder
        /\ vld.passed_tests + vld.failed_tests = Len(TestOrder)
        /\ vld.overall_status = "PASS" <=>
              (\A k \in DOMAIN vld.tests : vld.tests[k] /= "FAIL")

====
